---- MODULE Spec2Model ----
(***************************************************************************)
(* A model of the OrbitNest node SDK runtime: HttpClient.request           *)
(* (src/src/lib/client.ts), the session-holding AuthClient                 *)
(* (src/src/lib/auth.ts), createClient (src/src/index.ts), the             *)
(* DatabaseClient with its TableQueryBuilder (src/src/lib/database.ts)     *)
(* and the FunctionsClient (functions.ts).                                 *)
(*                                                                         *)
(* JavaScript values are modelled as records tagged by k:                 *)
(*   [k |-> "null"] and [k |-> "object", <fields>]                         *)
(* and a response body additionally as [k |-> "empty"] or [k |-> "text"],  *)
(* the two bodies on which response.json() rejects.  A property that an    *)
(* object lacks reads as Undefined, as in JavaScript.                      *)
(***************************************************************************)
EXTENDS Integers, Naturals, Sequences, FiniteSets, TLC

VARIABLES
    session,    \* AuthClient.session: the held session, or Null
    calls,      \* the HttpClient.request calls in flight, one per slot
    netCalls,   \* number of fetch() calls issued so far
    solo,       \* the session held when the call in flight was issued (history)
    lastWrite,  \* the last payload stored while another call was in flight (history)
    facade,     \* what createClient has returned
    builders,   \* the TableQueryBuilder instances made by db.from
    http,       \* the HttpClient that createClient has constructed
    ev          \* the step that was taken last (history)

vars == <<session, calls, netCalls, solo, lastWrite, facade, builders, http, ev>>
dbVars == <<facade, builders, http>>

----------------------------------------------------------------------------
(* Bounds of the model *)

MaxCalls == 2
MaxRequests == 2

Slots == 1..MaxCalls

----------------------------------------------------------------------------
(* JavaScript values *)

Undefined == "undefined"
Null == [k |-> "null"]

\* v.f, or undefined when v has no such property (v?.f for null)
Field(v, f) == IF f \in DOMAIN v THEN v[f] ELSE Undefined

\* truthiness of a parsed JSON value
Truthy(v) == v.k = "object"

\* truthiness of a string-valued property
TruthyStr(s) == s # "" /\ s # Undefined

----------------------------------------------------------------------------
(* Configuration and the values the remote service may send *)

apiKey == "key123"
projectSlug == "demo"

S1 == [k |-> "object", access_token |-> "t1", refresh_token |-> "r1", user |-> "u1"]
S2 == [k |-> "object", access_token |-> "t2", refresh_token |-> "r2", user |-> "u2"]
\* a session with an empty access token and without a refresh token
SBare == [k |-> "object", access_token |-> "", user |-> "u3"]
Sessions == {S1, S2, SBare}

OkBody == [k |-> "object", success |-> "true"]
ErrBody == [k |-> "object", message |-> "User already exists", code |-> "CONFLICT"]
ErrBodyNest == [k |-> "object", error |-> "Conflict", statusCode |-> 409]

EmptyBody == [k |-> "empty"]
TextBody == [k |-> "text"]

\* the responses of the remote service, as <<status, body>>: a success with
\* each kind of body, a 204 without one, and a failure with each kind of body
OkBodies == {Null, OkBody} \cup Sessions
ErrBodies == {TextBody, ErrBody, ErrBodyNest}
Responses ==
    ({200} \X OkBodies) \cup {<<204, EmptyBody>>} \cup ({409} \X ErrBodies)

\* the responses that may arrive after the call was aborted
LateResponses == {<<200, OkBody>>, <<409, ErrBody>>}

----------------------------------------------------------------------------
(* HttpClient (client.ts) *)

baseUrl == "https://api.orbitnest.io"

NoHeaders == [h \in {} |-> ""]

\* what fetch may throw
AbortError == [isError |-> TRUE, name |-> "AbortError", message |-> "This operation was aborted"]
FetchFailed == [isError |-> TRUE, name |-> "TypeError", message |-> "fetch failed"]
ThrownValue == [isError |-> FALSE, name |-> Undefined, message |-> Undefined]
Failures == {FetchFailed, ThrownValue}

\* the request handed to fetch (client.ts 21, 26-35)
FetchRequest(path, options) ==
    [ url |-> baseUrl \o path,
      method |-> IF TruthyStr(Field(options, "method")) THEN options.method ELSE "GET",
      Authorization |-> IF "Authorization" \in DOMAIN Field(options, "headers")
                        THEN options.headers.Authorization
                        ELSE "Bearer " \o apiKey,
      body |-> IF TruthyStr(Field(options, "body")) THEN options.body ELSE Undefined ]

\* response.ok
ResponseOk(status) == status >= 200 /\ status <= 299

\* await response.json().catch(() => null)
JsonOrNull(body) == IF body.k \in {"empty", "text"} THEN Null ELSE body

\* data?.message || data?.error || `Request failed with status ${response.status}`
ErrorMessage(data, status) ==
    IF TruthyStr(Field(data, "message")) THEN data.message
    ELSE IF TruthyStr(Field(data, "error")) THEN data.error
    ELSE "Request failed with status " \o ToString(status)

\* data?.code || data?.statusCode?.toString()
ErrorCode(data) ==
    IF TruthyStr(Field(data, "code")) THEN data.code
    ELSE IF "statusCode" \in DOMAIN data THEN ToString(data.statusCode)
    ELSE Undefined

\* an error envelope whose status is taken from the body of the response
ResponseEnvelopeStatusFromBody(status, body) ==
    LET data == JsonOrNull(body) IN
    IF ~ResponseOk(status)
    THEN [ data |-> Null,
           error |-> [ message |-> ErrorMessage(data, status),
                       code |-> ErrorCode(data),
                       status |-> IF "statusCode" \in DOMAIN data THEN data.statusCode ELSE 500 ] ]
    ELSE [ data |-> data, error |-> Null ]

\* the envelope built from a received response (client.ts 39-52)
ResponseEnvelope(status, body) ==
    LET data == JsonOrNull(body) IN
    IF ~ResponseOk(status)
    THEN [ data |-> Null,
           error |-> [ message |-> ErrorMessage(data, status),
                       code |-> ErrorCode(data),
                       status |-> status ] ]
    ELSE [ data |-> data, error |-> Null ]

\* a catch block that does not recognise the abort
CatchEnvelopeNoAbort(err) ==
    [ data |-> Null,
      error |-> [ message |-> IF err.isError THEN err.message ELSE "Unknown error",
                  code |-> "NETWORK_ERROR" ] ]

\* the envelope built in the catch block (client.ts 53-70)
CatchEnvelope(err) ==
    IF err.isError /\ err.name = "AbortError"
    THEN [ data |-> Null, error |-> [ message |-> "Request timeout", code |-> "TIMEOUT" ] ]
    ELSE [ data |-> Null,
           error |-> [ message |-> IF err.isError THEN err.message ELSE "Unknown error",
                       code |-> "NETWORK_ERROR" ] ]

NoEnvelope == [ data |-> Null, error |-> Null ]
NoRequest == [ url |-> "", method |-> "", Authorization |-> "", body |-> Undefined ]

\* A call: the method that issued it, how far it has got ("fetching": awaiting
\* fetch, "reading": awaiting response.json()), the state of its deadline
\* timer, the envelope it returned when the timer cut it short, and its
\* number in the order of issue.
IdleCall ==
    [ op |-> "none", phase |-> "idle", timer |-> "none", result |-> NoEnvelope, seq |-> 0 ]

\* solo, while a call runs with no other operation overlapping it, is the
\* session that was held when the call was issued; Overlapped otherwise
Overlapped == [k |-> "overlapped"]

\* a timer that clearTimeout leaves armed
ClearTimeoutNoop(timer) == timer

\* clearTimeout(timeoutId) (client.ts 37, 54)
ClearTimeout(timer) == IF timer = "pending" THEN "cleared" ELSE timer

\* one controller shared by all the calls of the client
AbortScopeShared(c) == Slots

\* the calls whose fetch holds the signal of call c's AbortController: each
\* request makes its own (client.ts 22, 34)
AbortScope(c) == {c}

\* the timeout of an HttpClient made without config.timeout (client.ts 13)
DefaultTimeout == 30000

\* this.timeout = config.timeout || 30000
Configured(config) ==
    IF "timeout" \in DOMAIN config /\ config.timeout # 0 THEN config.timeout
    ELSE DefaultTimeout

\* the delay of the deadline timer: options.timeout || this.timeout
Deadline(options, timeout) ==
    IF "timeout" \in DOMAIN options /\ options.timeout # 0 THEN options.timeout
    ELSE timeout

NoHttpClient == [ k |-> "none" ]
\* new HttpClient(config)
NewHttpClient(config) == [ k |-> "object", timeout |-> Configured(config) ]

\* lastWrite, while calls are in flight, is the payload that a signIn,
\* verifySignUp or refreshSession resolving among them has stored last (Null
\* when a signOut or a deleteUser has emptied the session since), with the
\* number of its call; NoWrite otherwise
NoWrite == [ seq |-> 0, data |-> Null ]
Writers == {"signIn", "verifySignUp", "refreshSession"}

\* a call occupies its slot from fetch() until its envelope is returned
InFlight(c) == calls[c].phase \in {"fetching", "reading"}
Free(c) == ~InFlight(c)
HasFree == \E c \in Slots : Free(c)
NextSlot == CHOOSE c \in Slots : Free(c) /\ \A d \in Slots : d < c => ~Free(d)

----------------------------------------------------------------------------
(* AuthClient (auth.ts): the pure parts *)

basePath == "/api/projects/" \o projectSlug \o "/auth"

Options(method, headers, body) == [ method |-> method, headers |-> headers, body |-> body ]

\* a method that leaves the bearer credential to the HttpClient
BearerOfApiKey(sess) == [ Authorization |-> "Bearer " \o apiKey ]

\* Authorization: `Bearer ${this.session.access_token}`
BearerOf(sess) == [ Authorization |-> "Bearer " \o Field(sess, "access_token") ]

\* getSession(): this.session
GetSession == session

\* getUser(): this.session?.user || null
GetUser == IF TruthyStr(Field(session, "user")) THEN session.user ELSE "null"

\* guards that are satisfied too easily: no guard at all, and one that only
\* asks for a session
HasSessionAlways(sess) == TRUE
HasRefreshTokenLax(sess) == Truthy(sess)
HasAccessTokenLax(sess) == Truthy(sess)

\* the guards of signOut (!this.session), of refreshSession
\* (!this.session?.refresh_token) and of getProfile, updateUser and deleteUser
\* (!this.session?.access_token), negated
HasSession(sess) == Truthy(sess)
HasRefreshToken(sess) == TruthyStr(Field(sess, "refresh_token"))
HasAccessToken(sess) == TruthyStr(Field(sess, "access_token"))

NoRefreshToken ==
    [ data |-> Null, error |-> [ message |-> "No refresh token available", code |-> "NO_SESSION" ] ]
NoActiveSession ==
    [ data |-> Null, error |-> [ message |-> "No active session", code |-> "NO_SESSION" ] ]
SignedOut == [ data |-> OkBody, error |-> Null ]

\* object spread: { ...a, ...b }
Spread(a, b) == [ f \in DOMAIN a \cup DOMAIN b |-> IF f \in DOMAIN b THEN b[f] ELSE a[f] ]

\* stores that differ from the methods': a signUp that keeps the payload, a
\* signIn that merges the payload into the held session, a signOut that keeps
\* the session when the remote call failed, a refresh that drops the session
\* when the remote call failed
SignInStoreIfHeld(sess, result) ==
    IF Truthy(result.data) /\ Truthy(sess) THEN result.data ELSE sess
RefreshSessionStoreKeepsToken(sess, result) ==
    IF Truthy(result.data)
    THEN Spread(result.data, [ refresh_token |-> Field(sess, "refresh_token") ])
    ELSE sess
SignUpStoreKeeps(sess, result) == IF Truthy(result.data) THEN result.data ELSE sess
VerifySignUpStoreFirstWins(sess, result) ==
    IF Truthy(result.data) /\ ~Truthy(sess) THEN result.data ELSE sess
SignInStoreMerges(sess, result) ==
    IF Truthy(result.data) THEN (IF Truthy(sess) THEN Spread(sess, result.data) ELSE result.data)
    ELSE sess
SignOutStoreIfOk(sess, result) == IF result.error = Null THEN Null ELSE sess
RefreshSessionStoreDrops(sess, result) == IF Truthy(result.data) THEN result.data ELSE Null

\* what each method does to this.session once its request has resolved
SignUpStore(sess, result) == sess
VerifySignUpStore(sess, result) == IF Truthy(result.data) THEN result.data ELSE sess
SignInStore(sess, result) == IF Truthy(result.data) THEN result.data ELSE sess
SignOutStore(sess, result) == Null
RefreshSessionStore(sess, result) == IF Truthy(result.data) THEN result.data ELSE sess
DeleteUserStore(sess, result) == IF Truthy(result.data) THEN Null ELSE sess

\* an updateUser that stores the profile it receives
ContinueUpdateUserStores(op, sess, result) ==
    IF op = "updateUser" /\ Truthy(result.data) THEN result.data
    ELSE IF op = "signOut" THEN Null
    ELSE IF op \in {"verifySignUp", "signIn", "refreshSession"} /\ Truthy(result.data)
         THEN result.data
    ELSE IF op = "deleteUser" /\ Truthy(result.data) THEN Null
    ELSE sess

\* what the method that issued the call does to the session once the
\* envelope of its call is there
Continue(op, sess, result) ==
    CASE op = "signUp" -> SignUpStore(sess, result)
      [] op = "verifySignUp" -> VerifySignUpStore(sess, result)
      [] op = "signIn" -> SignInStore(sess, result)
      [] op = "signOut" -> SignOutStore(sess, result)
      [] op = "refreshSession" -> RefreshSessionStore(sess, result)
      [] op = "deleteUser" -> DeleteUserStore(sess, result)
      [] OTHER -> sess

----------------------------------------------------------------------------
(* createClient (index.ts) *)

\* the configurations createClient may be given
Configs == [ projectSlug : {Undefined, "", projectSlug}, apiKey : {Undefined, "", apiKey} ]

NoFacade == [ k |-> "none" ]
Thrown(message) == [ k |-> "Error", message |-> message ]

\* a check that only notices a property that is absent
ConfigErrorUndefinedOnly(config) ==
    IF config.projectSlug = Undefined THEN "OrbitNest: projectSlug is required"
    ELSE IF config.apiKey = Undefined THEN "OrbitNest: apiKey is required"
    ELSE ""

\* the message of the error createClient throws, "" when it throws none
\* (index.ts 25-30)
ConfigError(config) ==
    IF ~TruthyStr(config.projectSlug) THEN "OrbitNest: projectSlug is required"
    ELSE IF ~TruthyStr(config.apiKey) THEN "OrbitNest: apiKey is required"
    ELSE ""

\* the facade: each resource client holds the HttpClient that was constructed
\* as the h-th one (index.ts 32-40)
Facade(h) == [ k |-> "object", db |-> h, functions |-> h, auth |-> h, logs |-> h, env |-> h ]

Constructed == facade # NoFacade

----------------------------------------------------------------------------
(* DatabaseClient, TableQueryBuilder (database.ts) and FunctionsClient
   (functions.ts): the pure parts *)

dbBasePath == "/api/project/" \o projectSlug \o "/database"
logsBasePath == "/api/project/" \o projectSlug \o "/logs"
envBasePath == "/api/projects/" \o projectSlug \o "/environment-variables"
functionsPath(functionName) ==
    "/api/projects/" \o projectSlug \o "/functions/v1/" \o functionName

\* the arguments the application passes
Tables == {"users", "posts"}
Nums == {0, 5}
Columns == {"", "name"}
Orders == {"ASC", "DESC"}
RowIds == {7}
Datas == {"name=a"}
Sqls == {"select 1"}
FunctionNames == {"hello"}
InvokeOptions == {[ f \in {} |-> "" ], [ method |-> "GET" ]}

\* a call without options: request(path)
NoOptions == Options(Undefined, NoHeaders, Undefined)

\* a response of the SQL endpoint
QueryBody ==
    [ k |-> "object", data |-> <<"row1">>, rows_affected |-> 1,
      columns |-> << [ name |-> "id", type |-> "int4" ] >> ]
DbResponses ==
    { <<200, QueryBody>>, <<200, OkBody>>, <<200, TextBody>>, <<204, EmptyBody>>,
      <<409, ErrBody>>, <<409, ErrBodyNest>> }

\* _pagination = {}
EmptyQuery == [ f \in {} |-> 0 ]

\* this._pagination.page = num; .limit = num; .sortBy = column, .sortOrder = order
PageState(q, num) == Spread(q, [ page |-> num ])
LimitState(q, num) == Spread(q, [ limit |-> num ])
DefaultOrder(order) == IF order = Undefined THEN "ASC" ELSE order
OrderByState(q, column, order) ==
    Spread(q, [ sortBy |-> column, sortOrder |-> DefaultOrder(order) ])

\* a chain method that returns a copy of the builder it was called on
Copy(b) == b + 1

\* return this
This(b) == b

RECURSIVE Join(_)
\* URLSearchParams.toString() of entries that need no escaping
Join(entries) ==
    IF entries = <<>> THEN ""
    ELSE IF Len(entries) = 1 THEN entries[1]
    ELSE entries[1] \o "&" \o Join(Tail(entries))

\* the entries getTableData sets (database.ts 71-75): if (options.f) params.set(f, ...)
ParamsOf(options) ==
    (IF "page" \in DOMAIN options /\ options.page # 0
     THEN << "page=" \o ToString(options.page) >> ELSE <<>>)
    \o (IF "limit" \in DOMAIN options /\ options.limit # 0
        THEN << "limit=" \o ToString(options.limit) >> ELSE <<>>)
    \o (IF TruthyStr(Field(options, "sortBy"))
        THEN << "sortBy=" \o options.sortBy >> ELSE <<>>)
    \o (IF TruthyStr(Field(options, "sortOrder"))
        THEN << "sortOrder=" \o options.sortOrder >> ELSE <<>>)

\* const query = params.toString() ? `?${params.toString()}` : ''
QueryString(options) ==
    IF Join(ParamsOf(options)) = "" THEN "" ELSE "?" \o Join(ParamsOf(options))

DataPath(tableName, options) ==
    dbBasePath \o "/tables/" \o tableName \o "/data" \o QueryString(options)
RowsPath(tableName) == dbBasePath \o "/tables/" \o tableName \o "/rows"
RowPath(tableName, rowId) == RowsPath(tableName) \o "/" \o ToString(rowId)

NoBuilder == [ k |-> "none" ]
Builders == {1}
NoBuilders == [ b \in Builders |-> NoBuilder ]
Built(b) == builders[b] # NoBuilder
NewBuilder(tableName) == [ k |-> "builder", tableName |-> tableName, pagination |-> EmptyQuery ]

\* a builder that sends its QueryState along with the table it writes to
TableWithQuery(builder) == builder.tableName \o QueryString(builder.pagination)

\* this.tableName, as the builder passes it to insert, update and delete
TableOf(builder) == builder.tableName

\* what a method's promise rejects with when it reads a property of null
TypeError == [ k |-> "TypeError", message |-> "Cannot read properties of null" ]

\* result.data.columns?.map(col => ({ name: col.name, dataType: col.type }))
Fields(columns) ==
    [ i \in DOMAIN columns |-> [ name |-> columns[i].name, dataType |-> columns[i].type ] ]

\* the QueryResult built from the payload (database.ts 40-44); fields is left
\* out when the payload has no columns
QueryResult(data) ==
    LET base == [ rows |-> IF "data" \in DOMAIN data THEN data.data ELSE <<>>,
                  rowCount |-> IF "rows_affected" \in DOMAIN data THEN data.rows_affected ELSE 0 ]
    IN  IF "columns" \in DOMAIN data
        THEN Spread(base, [ fields |-> Fields(data.columns) ])
        ELSE base

\* what query returns for the envelope of its call (database.ts 35-47)
QueryReturn(result) ==
    IF result.error # Null THEN result
    ELSE IF result.data = Null THEN TypeError
    ELSE [ data |-> QueryResult(result.data), error |-> Null ]

\* what invoke returns for the envelope of its call (functions.ts 24-33)
InvokeReturn(result) ==
    IF result.error # Null THEN result
    ELSE [ data |-> [ data |-> result.data, status |-> 200, headers |-> NoHeaders ],
           error |-> Null ]

\* what the method that issued the call returns for its envelope
Return(op, result) ==
    CASE op = "query" -> QueryReturn(result)
      [] op = "invoke" -> InvokeReturn(result)
      [] OTHER -> result

----------------------------------------------------------------------------
(* Steps *)

\* The last step: its kind, the method it belongs to, the request it handed to
\* fetch, the envelope it returned, the session and the number of network
\* calls before it, the value of solo when the call resolved, the argument of
\* setSession, the call's number in the order of issue, the value of lastWrite
\* before the step, and the HTTP status of the response that resolved the call.
Quiet ==
    [ kind |-> "step", op |-> "none", req |-> NoRequest, env |-> NoEnvelope,
      before |-> Null, issuedWith |-> Overlapped, cause |-> "none", net |-> 0,
      arg |-> Null, seq |-> 0, prev |-> NoWrite, status |-> 0,
      ret |-> NoEnvelope, b |-> 0, q |-> EmptyQuery, self |-> 0,
      rotated |-> FALSE, timer |-> "none", snap |-> <<>>, deadline |-> 0 ]

\* HttpClient.request up to the await of fetch: the timer is armed and the
\* request is handed to the network
issueWith(op, path, options, b, arg) ==
    LET c == NextSlot
        busy == \E d \in Slots : InFlight(d)
    IN
    /\ netCalls < MaxRequests
    /\ HasFree
    /\ calls' = [ d \in Slots |->
                    IF d = c
                    THEN [ IdleCall EXCEPT !.op = op, !.phase = "fetching",
                                           !.timer = "pending", !.seq = netCalls + 1 ]
                    ELSE calls[d] ]
    /\ netCalls' = netCalls + 1
    /\ solo' = IF busy THEN Overlapped ELSE session
    /\ ev' = [ Quiet EXCEPT !.kind = "issue", !.op = op,
                            !.req = FetchRequest(path, options), !.before = session,
                            !.net = netCalls, !.b = b,
                            !.q = IF b = 0 THEN EmptyQuery ELSE builders[b].pagination,
                            !.arg = arg,
                            !.rotated = (ev.kind = "resolve" /\ ev.op = "refreshSession"
                                         /\ Truthy(ev.env.data)),
                            !.deadline = Deadline(options, http.timeout) ]
    /\ UNCHANGED <<session, lastWrite>>
    /\ UNCHANGED dbVars

\* request called by a method of a table query builder
issue(op, path, options, b) == issueWith(op, path, options, b, Null)

\* request called by a method of a resource client
request(op, path, options) == issue(op, path, options, 0)

\* a method that returns without calling the network
LocalReturn(op, env) ==
    /\ ev' = [ Quiet EXCEPT !.kind = "return", !.op = op, !.env = env, !.before = session,
                            !.cause = "local", !.net = netCalls, !.ret = env ]
    /\ UNCHANGED <<session, calls, netCalls, solo, lastWrite>>
    /\ UNCHANGED dbVars

\* the envelope is returned to the awaiting method, which runs to its end
Resolve(c, env, cause, status) ==
    /\ session' = Continue(calls[c].op, session, env)
    /\ lastWrite' = IF \A d \in Slots \ {c} : ~InFlight(d) THEN NoWrite
                    ELSE IF calls[c].op \in Writers /\ Truthy(env.data)
                         THEN [ seq |-> calls[c].seq, data |-> env.data ]
                    ELSE IF calls[c].op = "signOut"
                            \/ (calls[c].op = "deleteUser" /\ Truthy(env.data))
                         THEN [ seq |-> calls[c].seq, data |-> Null ]
                    ELSE lastWrite
    /\ calls' = [ d \in Slots |->
                    IF cause = "timer" /\ d \in AbortScope(c) /\ calls[d].phase = "fetching"
                    THEN [ IdleCall EXCEPT !.phase = "aborted", !.timer = "fired",
                                           !.result = env ]
                    ELSE IF d = c THEN IdleCall
                    ELSE calls[d] ]
    /\ ev' = [ Quiet EXCEPT !.kind = "resolve", !.op = calls[c].op, !.env = env,
                            !.before = session, !.issuedWith = solo, !.cause = cause,
                            !.net = netCalls, !.seq = calls[c].seq, !.prev = lastWrite,
                            !.status = status, !.ret = Return(calls[c].op, env),
                            !.timer = IF cause = "timer" THEN "fired"
                                      ELSE ClearTimeout(calls[c].timer),
                            !.snap = IF cause = "timer" THEN calls ELSE <<>> ]
    /\ solo' = Overlapped
    /\ UNCHANGED netCalls
    /\ UNCHANGED dbVars

----------------------------------------------------------------------------
(* The network and the deadline timer, seen from one call *)

\* fetch resolves with a response; the timer is cleared (client.ts 37) and
\* the body is awaited
FetchResolves(c) ==
    /\ calls[c].phase = "fetching"
    /\ calls' = [ calls EXCEPT ![c].phase = "reading", ![c].timer = ClearTimeout(@) ]
    /\ ev' = [ Quiet EXCEPT !.kind = "headers" ]
    /\ UNCHANGED <<session, netCalls, solo, lastWrite>>
    /\ UNCHANGED dbVars

\* the body of the response, whose status is status, has been read: the
\* envelope is built and returned
BodyRead(c, status, body) ==
    /\ calls[c].phase = "reading"
    /\ Resolve(c, ResponseEnvelope(status, body), "response", status)

\* the deadline timer fires: controller.abort() makes fetch reject with an
\* AbortError, which the catch block turns into an envelope
TimerFires(c) ==
    /\ calls[c].phase = "fetching"
    /\ calls[c].timer = "pending"
    /\ Resolve(c, CatchEnvelope(AbortError), "timer", 0)

\* fetch rejects for another reason
FetchRejects(c, err) ==
    /\ calls[c].phase = "fetching"
    /\ Resolve(c, CatchEnvelope(err), "failure", 0)

\* the envelope a call has returned is not replaced by what the network
\* delivers for its aborted request
AfterAbort(returned, late) == returned

\* the network completes a request whose call has already timed out
LateResponse(c, status, body) ==
    /\ calls[c].phase = "aborted"
    /\ calls' = [ calls EXCEPT ![c] = IdleCall ]
    /\ ev' = [ Quiet EXCEPT !.kind = "late",
                            !.env = AfterAbort(calls[c].result, ResponseEnvelope(status, body)) ]
    /\ UNCHANGED <<session, netCalls, solo, lastWrite>>
    /\ UNCHANGED dbVars

----------------------------------------------------------------------------
(* AuthClient (auth.ts): the public methods *)

SignUp ==
    request("signUp", basePath \o "/signup", Options("POST", NoHeaders, "email,password,user_metadata"))

VerifySignUp ==
    request("verifySignUp", basePath \o "/verify-signup", Options("POST", NoHeaders, "email,code"))

SignIn ==
    request("signIn", basePath \o "/signin", Options("POST", NoHeaders, "email,password"))

SignOut ==
    IF ~HasSession(session)
    THEN LocalReturn("signOut", SignedOut)
    ELSE request("signOut", basePath \o "/signout", Options("POST", BearerOf(session), Undefined))

RefreshSession ==
    IF ~HasRefreshToken(session)
    THEN LocalReturn("refreshSession", NoRefreshToken)
    ELSE request("refreshSession", basePath \o "/refresh",
                 Options("POST", NoHeaders, "refresh_token=" \o Field(session, "refresh_token")))

ResetPasswordForEmail ==
    request("resetPasswordForEmail", basePath \o "/recover-password", Options("POST", NoHeaders, "email"))

UpdatePassword ==
    request("updatePassword", basePath \o "/reset-password", Options("POST", NoHeaders, "token,password"))

GetProfile ==
    IF ~HasAccessToken(session)
    THEN LocalReturn("getProfile", NoActiveSession)
    ELSE request("getProfile", basePath \o "/user", Options(Undefined, BearerOf(session), Undefined))

UpdateUser ==
    IF ~HasAccessToken(session)
    THEN LocalReturn("updateUser", NoActiveSession)
    ELSE request("updateUser", basePath \o "/user", Options("PUT", BearerOf(session), "options"))

DeleteUser ==
    IF ~HasAccessToken(session)
    THEN LocalReturn("deleteUser", NoActiveSession)
    ELSE request("deleteUser", basePath \o "/user", Options("DELETE", BearerOf(session), Undefined))

\* a setSession that keeps a session that is already held
SetSessionStoreIfNone(sess, s) == IF Truthy(sess) THEN sess ELSE s

\* setSession: this.session = session
SetSessionStore(sess, s) == s

SetSession(s) ==
    /\ session' = SetSessionStore(session, s)
    /\ solo' = Overlapped
    /\ lastWrite' = NoWrite
    /\ ev' = [ Quiet EXCEPT !.kind = "set", !.op = "setSession", !.before = session,
                            !.net = netCalls, !.arg = s ]
    /\ UNCHANGED dbVars
    /\ UNCHANGED <<calls, netCalls>>

----------------------------------------------------------------------------
(* createClient, DatabaseClient, TableQueryBuilder, FunctionsClient,
   LoggingClient and EnvironmentClient: the public operations *)

\* createClient(config): throws, or constructs one HttpClient and the
\* resource clients around it
CreateClient(config) ==
    /\ ~Constructed
    /\ facade' = IF ConfigError(config) # "" THEN facade ELSE Facade(1)
    /\ http' = IF ConfigError(config) # "" THEN http ELSE NewHttpClient(config)
    /\ ev' = [ Quiet EXCEPT !.kind = "create", !.op = "createClient", !.arg = config,
                            !.net = netCalls,
                            !.ret = IF ConfigError(config) # ""
                                    THEN Thrown(ConfigError(config))
                                    ELSE Facade(1) ]
    /\ UNCHANGED <<session, calls, netCalls, solo, lastWrite, builders>>

\* db.from(tableName): new TableQueryBuilder(this, tableName)
From(tableName) ==
    /\ Constructed
    /\ \E b \in Builders :
          /\ ~Built(b)
          /\ \A d \in Builders : d < b => Built(d)
          /\ builders' = [ builders EXCEPT ![b] = NewBuilder(tableName) ]
          /\ ev' = [ Quiet EXCEPT !.kind = "from", !.op = "from", !.b = b, !.self = b,
                                  !.net = netCalls ]
    /\ UNCHANGED <<session, calls, netCalls, solo, lastWrite, facade, http>>

\* a chain method of builder b: it replaces the QueryState by q and returns
\* a builder
Chain(op, b, q, arg) ==
    /\ Built(b)
    /\ builders' = [ builders EXCEPT ![b].pagination = q ]
    /\ ev' = [ Quiet EXCEPT !.kind = "chain", !.op = op, !.b = b,
                            !.q = builders[b].pagination, !.arg = arg,
                            !.self = This(b), !.net = netCalls ]
    /\ UNCHANGED <<session, calls, netCalls, solo, lastWrite, facade, http>>

Page(b, num) == Chain("page", b, PageState(builders[b].pagination, num), [ num |-> num ])
Limit(b, num) == Chain("limit", b, LimitState(builders[b].pagination, num), [ num |-> num ])
OrderBy(b, column, order) ==
    Chain("orderBy", b, OrderByState(builders[b].pagination, column, order),
          [ column |-> column, order |-> order ])

\* select(): db.getTableData(this.tableName, this._pagination)
Select(b) ==
    /\ Built(b)
    /\ issue("select", DataPath(builders[b].tableName, builders[b].pagination), NoOptions, b)

\* insert, update and delete of the builder delegate to the DatabaseClient
Insert(b, data) ==
    /\ Built(b)
    /\ issue("insert", RowsPath(TableOf(builders[b])), Options("POST", NoHeaders, data), b)

Update(b, rowId, data) ==
    /\ Built(b)
    /\ issue("update", RowPath(TableOf(builders[b]), rowId), Options("PUT", NoHeaders, data), b)

Delete(b, rowId) ==
    /\ Built(b)
    /\ issue("delete", RowPath(TableOf(builders[b]), rowId),
             Options("DELETE", NoHeaders, Undefined), b)

\* db.query(sql)
QueryAsUser(sql) ==
    /\ Constructed
    /\ request("query", dbBasePath \o "/sql",
               Options("POST", IF session = Null THEN NoHeaders ELSE BearerOf(session),
                       "sql=" \o sql))

Query(sql) ==
    /\ Constructed
    /\ request("query", dbBasePath \o "/sql", Options("POST", NoHeaders, "sql=" \o sql))

\* functions.invoke(functionName, options)
Invoke(functionName, options) ==
    /\ Constructed
    /\ request("invoke", functionsPath(functionName),
               Options(IF TruthyStr(Field(options, "method")) THEN options.method ELSE "POST",
                       NoHeaders, Undefined))

\* the lists a bulk operation may be given
BulkTables == {"users"}
MaxRows == 2
RowLists == UNION { [ 1..n -> Datas ] : n \in 0..MaxRows }
Names == {"KEY"}
VariableLists == UNION { [ 1..n -> Names ] : n \in 0..MaxRows }

\* JSON.stringify of a list
RECURSIVE Items(_)
Items(rows) ==
    IF Len(rows) = 0 THEN ""
    ELSE IF Len(rows) = 1 THEN rows[1]
    ELSE rows[1] \o "," \o Items(Tail(rows))

StringifyFirst(rows) == "[" \o (IF Len(rows) = 0 THEN "" ELSE rows[1]) \o "]"
Stringify(rows) == "[" \o Items(rows) \o "]"

\* db.bulkInsert(table, rows), db.bulkUpdate(table, updates),
\* db.bulkDelete(table, conditions) and env.bulkCreate(variables)
BulkInsert(table, rows) ==
    /\ Constructed
    /\ issueWith("bulkInsert", dbBasePath \o "/tables/" \o table \o "/rows/bulk",
                 Options("POST", NoHeaders, Stringify(rows)), 0, rows)

BulkUpdate(table, updates) ==
    /\ Constructed
    /\ issueWith("bulkUpdate", dbBasePath \o "/tables/" \o table \o "/rows/bulk",
                 Options("PUT", NoHeaders, Stringify(updates)), 0, updates)

BulkDelete(table, conditions) ==
    /\ Constructed
    /\ issueWith("bulkDelete", dbBasePath \o "/tables/" \o table \o "/rows/bulk",
                 Options("DELETE", NoHeaders, Stringify(conditions)), 0, conditions)

BulkCreate(variables) ==
    /\ Constructed
    /\ issueWith("bulkCreate", envBasePath \o "/bulk",
                 Options("POST", NoHeaders, "variables=" \o Stringify(variables)), 0, variables)

\* the timeouts the application may configure or pass
Timeouts == {0, 5}
TimeoutConfigs ==
    { [ projectSlug |-> projectSlug, apiKey |-> apiKey ] }
    \cup { [ projectSlug |-> projectSlug, apiKey |-> apiKey, timeout |-> t ] : t \in Timeouts }
RequestOptions == { NoOptions } \cup { Spread(NoOptions, [ timeout |-> t ]) : t \in Timeouts }

\* httpClient.request(path, options)
Request(options) ==
    /\ Constructed
    /\ issueWith("request", "/health", options, 0, options)

\* logs.getLogs() and env.list()
GetLogs ==
    /\ Constructed
    /\ request("getLogs", logsBasePath, NoOptions)

List ==
    /\ Constructed
    /\ request("list", envBasePath, NoOptions)

----------------------------------------------------------------------------

Init ==
    /\ session = Null
    /\ calls = [ c \in Slots |-> IdleCall ]
    /\ netCalls = 0
    /\ solo = Overlapped
    /\ lastWrite = NoWrite
    /\ facade = Facade(1)
    /\ builders = NoBuilders
    /\ http = NewHttpClient([ projectSlug |-> projectSlug, apiKey |-> apiKey ])
    /\ ev = Quiet

Next ==
    \/ SignUp
    \/ VerifySignUp
    \/ SignIn
    \/ SignOut
    \/ RefreshSession
    \/ ResetPasswordForEmail
    \/ UpdatePassword
    \/ GetProfile
    \/ UpdateUser
    \/ DeleteUser
    \/ \E s \in Sessions : SetSession(s)
    \/ \E c \in Slots : FetchResolves(c)
    \/ \E c \in Slots, r \in Responses : BodyRead(c, r[1], r[2])
    \/ \E c \in Slots : TimerFires(c)
    \/ \E c \in Slots, err \in Failures : FetchRejects(c, err)
    \/ \E c \in Slots, r \in LateResponses : LateResponse(c, r[1], r[2])

Spec == Init /\ [][Next]_vars

\* The application from before createClient, using the database, functions,
\* logs and environment clients
InitDb ==
    /\ session = Null
    /\ calls = [ c \in Slots |-> IdleCall ]
    /\ netCalls = 0
    /\ solo = Overlapped
    /\ lastWrite = NoWrite
    /\ facade = NoFacade
    /\ builders = NoBuilders
    /\ http = NoHttpClient
    /\ ev = Quiet

NextDb ==
    \/ \E config \in Configs : CreateClient(config)
    \/ \E sql \in Sqls : Query(sql)
    \/ \E f \in FunctionNames, options \in InvokeOptions : Invoke(f, options)
    \/ GetLogs
    \/ List
    \/ \E c \in Slots : FetchResolves(c)
    \/ \E c \in Slots, r \in DbResponses : BodyRead(c, r[1], r[2])
    \/ \E c \in Slots : TimerFires(c)
    \/ \E c \in Slots, err \in Failures : FetchRejects(c, err)
    \/ \E c \in Slots, r \in LateResponses : LateResponse(c, r[1], r[2])

SpecDb == InitDb /\ [][NextDb]_vars

\* An application that signs its user in and out while it uses the database,
\* functions, logs and environment clients
NextShared ==
    \/ \E config \in Configs : CreateClient(config)
    \/ \E s \in Sessions \cup {Null} : Constructed /\ SetSession(s)
    \/ \E t \in BulkTables : From(t)
    \/ \E b \in Builders : Select(b)
    \/ \E b \in Builders, data \in Datas : Insert(b, data)
    \/ \E b \in Builders, rowId \in RowIds, data \in Datas : Update(b, rowId, data)
    \/ \E b \in Builders, rowId \in RowIds : Delete(b, rowId)
    \/ \E sql \in Sqls : Query(sql)
    \/ \E f \in FunctionNames, options \in InvokeOptions : Invoke(f, options)
    \/ GetLogs
    \/ List
    \/ \E c \in Slots : FetchResolves(c)
    \/ \E c \in Slots, r \in DbResponses : BodyRead(c, r[1], r[2])
    \/ \E c \in Slots : TimerFires(c)
    \/ \E c \in Slots, err \in Failures : FetchRejects(c, err)

SpecShared == InitDb /\ [][NextShared]_vars

\* An application that writes in bulk
NextBulk ==
    \/ \E config \in Configs : CreateClient(config)
    \/ \E table \in BulkTables, rows \in RowLists : BulkInsert(table, rows)
    \/ \E table \in BulkTables, rows \in RowLists : BulkUpdate(table, rows)
    \/ \E table \in BulkTables, rows \in RowLists : BulkDelete(table, rows)
    \/ \E variables \in VariableLists : BulkCreate(variables)
    \/ \E c \in Slots : FetchResolves(c)
    \/ \E c \in Slots, r \in DbResponses : BodyRead(c, r[1], r[2])
    \/ \E c \in Slots : TimerFires(c)
    \/ \E c \in Slots, err \in Failures : FetchRejects(c, err)
    \/ \E c \in Slots, r \in LateResponses : LateResponse(c, r[1], r[2])

SpecBulk == InitDb /\ [][NextBulk]_vars

\* An application that configures the timeout and calls HttpClient.request
\* itself, with and without a timeout of its own
NextHttp ==
    \/ \E config \in TimeoutConfigs : CreateClient(config)
    \/ \E options \in RequestOptions : Request(options)
    \/ \E c \in Slots : FetchResolves(c)
    \/ \E c \in Slots, r \in DbResponses : BodyRead(c, r[1], r[2])
    \/ \E c \in Slots : TimerFires(c)
    \/ \E c \in Slots, err \in Failures : FetchRejects(c, err)
    \/ \E c \in Slots, r \in LateResponses : LateResponse(c, r[1], r[2])

SpecHttp == InitDb /\ [][NextHttp]_vars

\* the same, with a timer that fires when it stays armed; the network owes
\* nothing
FairSpecHttp == SpecHttp /\ \A c \in Slots : WF_vars(TimerFires(c))

\* The application building and executing table queries, up to the moment
\* each request is handed to fetch
NextBuilder ==
    \/ \E config \in Configs : CreateClient(config)
    \/ \E t \in Tables : From(t)
    \/ \E b \in Builders, num \in Nums : Page(b, num)
    \/ \E b \in Builders, num \in Nums : Limit(b, num)
    \/ \E b \in Builders, column \in Columns, order \in Orders \cup {Undefined} :
          OrderBy(b, column, order)
    \/ \E b \in Builders : Select(b)
    \/ \E b \in Builders, data \in Datas : Insert(b, data)
    \/ \E b \in Builders, rowId \in RowIds, data \in Datas : Update(b, rowId, data)
    \/ \E b \in Builders, rowId \in RowIds : Delete(b, rowId)

SpecBuilder == InitDb /\ [][NextBuilder]_vars

----------------------------------------------------------------------------
(* Properties *)

Resolved(op) == ev.kind = "resolve" /\ ev.op = op
Invoked(op) == ev.kind \in {"issue", "return"} /\ ev.op = op
Failed == ev.env.error # Null
TimeoutEnvelope(env) ==
    /\ env.data = Null
    /\ env.error # Null
    /\ Field(env.error, "code") = "TIMEOUT"
UserOf(s) == IF "user" \in DOMAIN s /\ s.user # "" THEN s.user ELSE "null"

\* C1: every envelope returned by HttpClient.request has exactly one of data
\* and error populated.
C1_ExactlyOne ==
    ev.kind = "resolve" => ((ev.env.data = Null) # (ev.env.error = Null))

\* C2: a call whose deadline timer fires before the remote responds resolves
\* with code TIMEOUT and data null, and what the network delivers afterwards
\* does not replace that envelope.
C2_Timeout ==
    /\ (ev.kind = "resolve" /\ ev.cause = "timer") => TimeoutEnvelope(ev.env)
    /\ \A c \in Slots : calls[c].phase = "aborted" => TimeoutEnvelope(calls[c].result)
    /\ ev.kind = "late" => TimeoutEnvelope(ev.env)

C2_Witness ==
    ev.kind = "late" /\ TimeoutEnvelope(ev.env)

\* C3: once signIn has resolved with a payload s, getSession() is s and
\* getUser() is s.user, whatever was held before.
C3_SignInReplaces ==
    (Resolved("signIn") /\ ~Failed /\ Truthy(ev.env.data)) =>
        /\ GetSession = ev.env.data
        /\ GetUser = UserOf(ev.env.data)

C3_Witness ==
    Resolved("signIn") /\ ev.before = S1 /\ ev.env.data = SBare /\ GetSession = SBare

\* C4: once a signOut that called the remote service has resolved, getSession()
\* and getUser() are null, whatever the outcome of the remote call.
C4_SignOutClears ==
    Resolved("signOut") => GetSession = Null /\ GetUser = "null"

C4_Witness ==
    Resolved("signOut") /\ Failed /\ ev.before = S1 /\ GetSession = Null

\* C5: a signIn, verifySignUp or refreshSession that resolves with an error
\* leaves the session as it was: the step does not change it, and a call that
\* ran alone leaves the session that was held when it was issued.
C5_FailureKeepsSession ==
    (ev.kind = "resolve" /\ ev.op \in {"signIn", "verifySignUp", "refreshSession"} /\ Failed) =>
        /\ session = ev.before
        /\ ev.issuedWith # Overlapped => session = ev.issuedWith

C5_Witness ==
    Resolved("refreshSession") /\ Failed /\ ev.issuedWith = S1 /\ session = S1

\* C6: refreshSession without a held refresh token returns the NO_SESSION
\* envelope, calls the network not once and leaves the session unchanged.
C6_RefreshNeedsToken ==
    (Invoked("refreshSession") /\ Field(ev.before, "refresh_token") \in {"", Undefined}) =>
        /\ ev.kind = "return"
        /\ ev.env = [ data |-> Null,
                      error |-> [ message |-> "No refresh token available",
                                  code |-> "NO_SESSION" ] ]
        /\ netCalls = ev.net
        /\ session = ev.before

C6_Witness ==
    ev.kind = "return" /\ ev.op = "refreshSession" /\ ev.before = SBare

\* C7: getProfile, updateUser and deleteUser without a held access token return
\* the NO_SESSION envelope, call the network not once and leave the session
\* unchanged.
C7_NeedsAccessToken ==
    \A op \in {"getProfile", "updateUser", "deleteUser"} :
        (Invoked(op) /\ Field(ev.before, "access_token") \in {"", Undefined}) =>
            /\ ev.kind = "return"
            /\ ev.env = [ data |-> Null,
                          error |-> [ message |-> "No active session", code |-> "NO_SESSION" ] ]
            /\ netCalls = ev.net
            /\ session = ev.before

C7_Witness ==
    ev.kind = "return" /\ ev.op = "deleteUser" /\ ev.before = SBare

\* C8: signOut without a held session returns a success envelope, calls the
\* network not once and leaves the holder empty.
C8_SignOutAnonymous ==
    (Invoked("signOut") /\ ev.before = Null) =>
        /\ ev.kind = "return"
        /\ ev.env = [ data |-> [k |-> "object", success |-> "true"], error |-> Null ]
        /\ netCalls = ev.net
        /\ session = Null

C8_Witness ==
    ev.kind = "return" /\ ev.op = "signOut" /\ session = Null /\ netCalls > 0

\* C9: when deleteUser's remote call succeeds (an envelope without error) the
\* session is empty once deleteUser has resolved; when it fails the session is
\* unchanged.
C9_DeleteClears ==
    Resolved("deleteUser") =>
        IF Failed THEN session = ev.before ELSE session = Null

\* C10: signUp does not change the session, whatever the response; a
\* verifySignUp that resolves with a payload holds that payload.
C10_OnlyVerifySignsUp ==
    /\ (ev.kind \in {"issue", "resolve"} /\ ev.op = "signUp") => session = ev.before
    /\ (Resolved("verifySignUp") /\ ~Failed /\ Truthy(ev.env.data)) => session = ev.env.data

C10_Witness ==
    Resolved("signUp") /\ ev.env.data = S1 /\ session = Null

\* C11: setSession(s) followed immediately by getSession() returns s, and
\* getUser() returns s.user, whatever was held before.
C11_SetSessionRoundTrip ==
    ev.kind = "set" => GetSession = ev.arg /\ GetUser = UserOf(ev.arg)

C11_Witness ==
    ev.kind = "set" /\ ev.before = S1 /\ ev.arg = SBare /\ GetSession = SBare

\* C12: when two calls that store a session are in flight together and both
\* succeed, the session held once both have resolved is the payload of the one
\* that resolved last, whichever was issued first.
BothResolved ==
    /\ ev.kind = "resolve"
    /\ ev.op \in Writers
    /\ Truthy(ev.env.data)
    /\ ev.prev # NoWrite
    /\ Truthy(ev.prev.data)
    /\ \A c \in Slots : ~InFlight(c)

C12_LastResolvedWins ==
    BothResolved => session = ev.env.data

C12_Witness ==
    BothResolved /\ ev.seq < ev.prev.seq /\ ev.prev.data # ev.env.data /\ session = ev.env.data

\* C18: an error envelope that request builds for a timeout or a network
\* failure has code TIMEOUT or NETWORK_ERROR and no status; one that it builds
\* from a received non-2xx response has the HTTP status of that response as
\* its status, and only an envelope of that origin has a status.
LocalCodes == {"TIMEOUT", "NETWORK_ERROR"}

----------------------------------------------------------------------------
(* Properties of createClient, the database and functions clients *)

IsEnvelope(r) == DOMAIN r = {"data", "error"}
Issued(op) == ev.kind = "issue" /\ ev.op = op

\* C13: every operation of a resource client resolves with an envelope and
\* never throws or rejects, whatever the outcome of its call.
C13_NeverThrows ==
    ev.kind \in {"resolve", "return"} => IsEnvelope(ev.ret)

\* C16: createClient throws when projectSlug or apiKey is missing or empty,
\* with nothing constructed and no network call made; otherwise it returns a
\* facade whose resource clients all hold the same HttpClient.
C16_CreateClient ==
    ev.kind = "create" =>
        IF ~TruthyStr(ev.arg.projectSlug) \/ ~TruthyStr(ev.arg.apiKey)
        THEN /\ ev.ret.k = "Error"
             /\ facade = NoFacade
             /\ netCalls = 0
             /\ \A c \in Slots : calls[c] = IdleCall
        ELSE /\ ev.ret = facade
             /\ Constructed
             /\ Cardinality({facade.db, facade.functions, facade.auth,
                             facade.logs, facade.env}) = 1
             /\ netCalls = 0

C16_Witness ==
    /\ ev.kind = "create"
    /\ ev.arg.projectSlug = projectSlug
    /\ ev.arg.apiKey = ""
    /\ ev.ret.k = "Error"
    /\ ~Constructed

\* C17: query and invoke return an error envelope of their call unchanged,
\* with data null; on success query returns {rows, rowCount, fields} and
\* invoke returns {data: payload, status: 200, headers: {}}.
C17_ReshapeOnSuccess ==
    (ev.kind = "resolve" /\ ev.op \in {"query", "invoke"}) =>
        IF Failed
        THEN ev.ret = ev.env /\ ev.ret.data = Null
        ELSE /\ IsEnvelope(ev.ret)
             /\ ev.ret.error = Null
             /\ ev.op = "query" =>
                   /\ {"rows", "rowCount"} \subseteq DOMAIN ev.ret.data
                   /\ DOMAIN ev.ret.data \subseteq {"rows", "rowCount", "fields"}
             /\ ev.op = "invoke" =>
                   ev.ret.data = [ data |-> ev.env.data, status |-> 200, headers |-> NoHeaders ]

----------------------------------------------------------------------------
(* Properties of the table query builder *)

\* the query parameters that stand for a QueryState: one entry for every
\* field that has been set, with the value it holds
ExactParams(q) ==
    (IF "page" \in DOMAIN q THEN << "page=" \o ToString(q.page) >> ELSE <<>>)
    \o (IF "limit" \in DOMAIN q THEN << "limit=" \o ToString(q.limit) >> ELSE <<>>)
    \o (IF "sortBy" \in DOMAIN q THEN << "sortBy=" \o q.sortBy >> ELSE <<>>)
    \o (IF "sortOrder" \in DOMAIN q THEN << "sortOrder=" \o q.sortOrder >> ELSE <<>>)

DataUrl(b) == baseUrl \o dbBasePath \o "/tables/" \o builders[b].tableName \o "/data"

\* the QueryState after a chain method called with arg on a builder holding q
Overwritten(op, q, arg) ==
    CASE op = "page" -> [ f \in DOMAIN q \cup {"page"} |-> IF f = "page" THEN arg.num ELSE q[f] ]
      [] op = "limit" -> [ f \in DOMAIN q \cup {"limit"} |-> IF f = "limit" THEN arg.num ELSE q[f] ]
      [] op = "orderBy" ->
            [ f \in DOMAIN q \cup {"sortBy", "sortOrder"} |->
                IF f = "sortBy" THEN arg.column
                ELSE IF f = "sortOrder" THEN (IF arg.order = Undefined THEN "ASC" ELSE arg.order)
                ELSE q[f] ]

\* C14: page, limit and orderBy overwrite the value held for their field, and
\* the read issued for a builder on which only limit (only page, only orderBy)
\* was called carries that single parameter with the value set last.
C14_Overwrite ==
    /\ ev.kind = "chain" => builders[ev.b].pagination = Overwritten(ev.op, ev.q, ev.arg)
    /\ (Issued("select") /\ DOMAIN ev.q = {"limit"}) =>
          ev.req.url = DataUrl(ev.b) \o "?limit=" \o ToString(ev.q.limit)
    /\ (Issued("select") /\ DOMAIN ev.q = {"page"}) =>
          ev.req.url = DataUrl(ev.b) \o "?page=" \o ToString(ev.q.page)
    /\ (Issued("select") /\ DOMAIN ev.q = {"sortBy", "sortOrder"}) =>
          ev.req.url = DataUrl(ev.b) \o "?sortBy=" \o ev.q.sortBy
                                     \o "&sortOrder=" \o ev.q.sortOrder

\* C15: page, limit and orderBy issue no network call and return the builder
\* they were called on; from issues none either; select issues exactly one
\* call, a GET of the data of the builder's table.
C15_OnlySelectCalls ==
    /\ ev.kind = "chain" => netCalls = ev.net /\ ev.self = ev.b
    /\ ev.kind = "from" => netCalls = ev.net
    /\ Issued("select") =>
          /\ netCalls = ev.net + 1
          /\ ev.req.method = "GET"
          /\ ev.req.url = baseUrl \o DataPath(builders[ev.b].tableName, ev.q)

C15_Witness ==
    /\ ev.kind = "chain"
    /\ ev.op = "orderBy"
    /\ "limit" \in DOMAIN ev.q
    /\ ev.self = ev.b
    /\ netCalls = 1

\* C19: the read issued by select carries one parameter for every field of
\* the QueryState that was set, with its value, whatever the value, and none
\* for a field that was not set.
C19_SelectCarriesState ==
    Issued("select") =>
        ev.req.url = DataUrl(ev.b) \o (IF ExactParams(ev.q) = <<>> THEN ""
                                       ELSE "?" \o Join(ExactParams(ev.q)))

\* C20: the request issued by the builder's insert, update or delete is
\* determined by the table and the arguments alone, whatever page, limit and
\* orderBy have set, and the QueryState stays as it was.
RowsUrl(b) == baseUrl \o dbBasePath \o "/tables/" \o builders[b].tableName \o "/rows"

C20_WritesBypassState ==
    /\ Issued("insert") =>
          /\ ev.req.url = RowsUrl(ev.b) /\ ev.req.method = "POST" /\ ev.req.body \in Datas
          /\ builders[ev.b].pagination = ev.q
    /\ Issued("update") =>
          /\ \E rowId \in RowIds : ev.req.url = RowsUrl(ev.b) \o "/" \o ToString(rowId)
          /\ ev.req.method = "PUT" /\ ev.req.body \in Datas
          /\ builders[ev.b].pagination = ev.q
    /\ Issued("delete") =>
          /\ \E rowId \in RowIds : ev.req.url = RowsUrl(ev.b) \o "/" \o ToString(rowId)
          /\ ev.req.method = "DELETE" /\ ev.req.body = Undefined
          /\ builders[ev.b].pagination = ev.q

C20_Witness ==
    /\ Issued("update")
    /\ "limit" \in DOMAIN ev.q /\ ev.q.limit = 5
    /\ "sortBy" \in DOMAIN ev.q /\ ev.q.sortBy = "name"
    /\ ev.req.url = RowsUrl(ev.b) \o "/7"

----------------------------------------------------------------------------
(* Properties of the session and of the credential a call carries *)

SessionOps == {"signIn", "verifySignUp", "refreshSession", "signOut", "deleteUser", "setSession"}
SessionCalls == {"signOut", "getProfile", "updateUser", "deleteUser"}
Recorded == ev.kind \in {"issue", "return", "resolve", "set"}

\* C21: the session changes only in a step of signIn, verifySignUp,
\* refreshSession, signOut, deleteUser or setSession; resetPasswordForEmail,
\* updatePassword, getProfile and updateUser leave it as it was whatever the
\* response, and the requests of resetPasswordForEmail and updatePassword are
\* the same whatever session is held.
C21_OnlySessionOps ==
    /\ (Recorded /\ session # ev.before) => ev.op \in SessionOps
    /\ (Recorded /\ ev.op \in {"resetPasswordForEmail", "updatePassword", "getProfile",
                               "updateUser"}) => session = ev.before
    /\ Issued("resetPasswordForEmail") =>
          ev.req = [ url |-> baseUrl \o basePath \o "/recover-password", method |-> "POST",
                     Authorization |-> "Bearer " \o apiKey, body |-> "email" ]
    /\ Issued("updatePassword") =>
          ev.req = [ url |-> baseUrl \o basePath \o "/reset-password", method |-> "POST",
                     Authorization |-> "Bearer " \o apiKey, body |-> "token,password" ]

C21_Witness ==
    /\ Resolved("updateUser")
    /\ ev.env.data = S2
    /\ ev.before = S1
    /\ session = S1

\* C22: a successful refreshSession replaces the session by its payload, and
\* every call issued from then on carries the tokens of the session held when
\* it is issued: the access token as bearer credential of getProfile,
\* updateUser, deleteUser and signOut, the refresh token in the body of
\* refreshSession.
C22_RotatedTokens ==
    /\ (Resolved("refreshSession") /\ Truthy(ev.env.data)) => session = ev.env.data
    /\ (ev.kind = "issue" /\ ev.op \in SessionCalls) =>
          ev.req.Authorization = "Bearer " \o Field(session, "access_token")
    /\ Issued("refreshSession") =>
          ev.req.body = "refresh_token=" \o Field(session, "refresh_token")

C22_Witness ==
    /\ Issued("getProfile")
    /\ ev.rotated
    /\ session = S2
    /\ ev.req.Authorization = "Bearer t2"

\* C23: every request carries a bearer credential: the API key, except that
\* signOut, getProfile, updateUser and deleteUser carry the access token of
\* the session held when the call is issued.
C23_Bearer ==
    ev.kind = "issue" =>
        ev.req.Authorization =
            IF ev.op \in SessionCalls
            THEN "Bearer " \o Field(ev.before, "access_token")
            ELSE "Bearer " \o apiKey

C23_Witness ==
    /\ Issued("signOut")
    /\ ev.before = S1
    /\ ev.req.Authorization = "Bearer t1"

\* a call that stores a session resolves with a payload after a signOut or a
\* deleteUser that was issued later than it has emptied the session
StaleSuccess ==
    /\ ev.kind = "resolve"
    /\ ev.op \in Writers
    /\ Truthy(ev.env.data)
    /\ ev.prev # NoWrite
    /\ ev.prev.data = Null
    /\ ev.prev.seq > ev.seq

\* C28: once signOut or deleteUser has emptied the session, a
\* refreshSession or signIn that was in flight at that moment does not
\* re-establish it.
C28_StaysEmpty ==
    (StaleSuccess /\ ev.op \in {"refreshSession", "signIn"}) => session = Null

\* C28, last resolution wins: an emptied session stays empty until setSession is called
\* or a signIn, verifySignUp or refreshSession resolves with a payload, and
\* such a resolution re-establishes the session also when its call was in
\* flight when the session was emptied.
C28_LastResolutionWins ==
    /\ (Recorded /\ ev.before = Null /\ session # Null) =>
          \/ ev.kind = "set"
          \/ ev.kind = "resolve" /\ ev.op \in Writers /\ Truthy(ev.env.data)
    /\ StaleSuccess => session = ev.env.data

C28_Witness ==
    /\ StaleSuccess
    /\ ev.op = "signIn"
    /\ ev.before = Null
    /\ session = S1

----------------------------------------------------------------------------
(* Properties of the deadline timer *)

\* C24: the deadline of a call is the timeout passed with the call whenever
\* one is passed, 0 included, and the configured timeout otherwise; the
\* configured timeout is config.timeout whenever given and 30000 otherwise.
C24_Deadline ==
    /\ (ev.kind = "create" /\ Constructed) =>
          http.timeout = IF "timeout" \in DOMAIN ev.arg THEN ev.arg.timeout
                         ELSE DefaultTimeout
    /\ Issued("request") =>
          ev.deadline = IF "timeout" \in DOMAIN ev.arg THEN ev.arg.timeout
                        ELSE http.timeout

\* C25: when a call returns its envelope its timer is not pending any more,
\* on every path, and a pending timer belongs to a call that awaits fetch.
C25_TimerCleared ==
    /\ ev.kind = "resolve" => ev.timer \in {"cleared", "fired"}
    /\ \A c \in Slots : calls[c].timer = "pending" => calls[c].phase = "fetching"

C25_Witness ==
    /\ ev.kind = "resolve"
    /\ ev.cause = "failure"
    /\ ev.timer = "cleared"
    /\ \E c \in Slots : calls[c].timer = "pending"

\* C26: when the deadline of one call fires, every other call is left as it
\* was.
C26_AbortOnlyOwn ==
    (ev.kind = "resolve" /\ ev.cause = "timer") =>
        \A d \in Slots : ev.snap[d].seq # ev.seq => calls[d] = ev.snap[d]

C26_Witness ==
    /\ ev.kind = "resolve"
    /\ ev.cause = "timer"
    /\ \E d \in Slots : calls[d].phase = "fetching" /\ calls[d] = ev.snap[d]

\* C29: with a timer that fires when it stays armed, every call that is in
\* flight eventually returns its envelope.
C29_EventuallyReturns ==
    \A c \in Slots : InFlight(c) ~> ~InFlight(c)

----------------------------------------------------------------------------
(* Properties of the requests a call makes *)

BulkOps == {"bulkInsert", "bulkUpdate", "bulkDelete"}

\* the JSON text of a whole list, written from its last item backwards
RECURSIVE Whole(_)
Whole(rows) ==
    IF Len(rows) = 0 THEN ""
    ELSE Whole(SubSeq(rows, 1, Len(rows) - 1))
         \o (IF Len(rows) > 1 THEN "," ELSE "") \o rows[Len(rows)]

\* C27: a call makes one HTTP request and none when it returns, whatever the
\* outcome (no retry); a bulk operation sends its whole list in that one
\* request.
C27_OneRequest ==
    /\ ev.kind = "issue" => netCalls = ev.net + 1
    /\ ev.kind = "resolve" => netCalls = ev.net
    /\ (ev.kind = "issue" /\ ev.op \in BulkOps) => ev.req.body = "[" \o Whole(ev.arg) \o "]"
    /\ Issued("bulkCreate") => ev.req.body = "variables=[" \o Whole(ev.arg) \o "]"

C27_Witness ==
    /\ ev.kind = "issue"
    /\ ev.op \in BulkOps
    /\ Len(ev.arg) = MaxRows
    /\ netCalls = ev.net + 1
    /\ ev.req.body = "[" \o Whole(ev.arg) \o "]"

----------------------------------------------------------------------------
(* Properties of the clients that share the transport with auth *)

SharedOps == {"select", "insert", "update", "delete", "query", "invoke", "getLogs", "list"}

====
